---- MODULE Spec2Model ----
(***************************************************************************)
(* Session / transport / dispatch runtime of chrome-devtools-mcp.          *)
(*                                                                         *)
(*   - the multi-session HTTP transport (startHttpTransport,               *)
(*     handleMcpRequest, createNewSession) and its session registry;       *)
(*   - the per-invocation pipeline registered by createServer/registerTool *)
(*     (guard, getContext, pre-check, handler, finalization, release).     *)
(*                                                                         *)
(* One action is one synchronous run of JavaScript between two awaits.     *)
(***************************************************************************)
EXTENDS Integers, Sequences, FiniteSets, TLC

\* Bounds of the model.
MaxSessions == 2
MaxCalls == 3
MaxSessionCalls == 2
MaxBrowsers == 2
MaxTools == 4

Browsers == 1 .. MaxBrowsers

(***************************************************************************)
(* Values of the mcp-session-id header: absent (undefined), or a string.   *)
(* The string with id 0 is the empty string; MaxSessions + 1 is a string   *)
(* that no transport ever generated.                                       *)
(***************************************************************************)
Headers ==
  {[present |-> FALSE, id |-> 0]} \cup
  {[present |-> TRUE, id |-> k] : k \in 0 .. MaxSessions + 1}

\* JavaScript truthiness of `sessionId` in `if (sessionId)`.
Truthy(h) == h.present /\ h.id # 0

Methods == {"GET", "POST", "DELETE"}

(***************************************************************************)
(* Text, as sequences of characters.                                       *)
(***************************************************************************)
EmptyText == << >>
BoomText == <<"b", "o", "o", "m">>
UndefinedText == <<"u", "n", "d", "e", "f", "i", "n", "e", "d">>
NullReadText == <<"C", "a", "n", "n", "o", "t", " ", "r", "e", "a", "d">>
NoPrimitiveText == <<"C", "a", "n", "n", "o", "t", " ", "c", "o", "n", "v", "e", "r", "t">>

(***************************************************************************)
(* Values a promise can reject with.  kind "Error" is an instance of       *)
(* Error with the given message; "undefined" is `throw undefined` /        *)
(* `Promise.reject()`; "noproto" is an object without toString             *)
(* (Object.create(null)).                                                  *)
(***************************************************************************)
ErrorOf(m) == [kind |-> "Error", text |-> m]
ThrownUndefined == [kind |-> "undefined", text |-> EmptyText]
ThrownNoProto == [kind |-> "noproto", text |-> EmptyText]

\* What the browser driver and the context factory reject with: Errors.
DriverErrors == {ErrorOf(BoomText)}
\* What a tool handler or the finalization step can reject with: any value.
AnyErrors ==
  {ErrorOf(BoomText), ErrorOf(EmptyText), ThrownUndefined, ThrownNoProto}

NoError == [kind |-> "none", text |-> EmptyText]

(***************************************************************************)
(* State.                                                                  *)
(*   sessions    the registry `sessions` (Map<string, Session>): a         *)
(*               function from the registered ids to {transport, server}   *)
(*   tstate      per transport adapter: "none" (not constructed),          *)
(*               "connecting" (await serverInstance.connect),              *)
(*               "handling" (await transport.handleRequest of the creating *)
(*               request), "ready" (creating request answered)             *)
(*   closed      per transport adapter, whether it has closed              *)
(*   sessionId   transport.sessionId (0 is undefined)                      *)
(*   serverOf    the server instance built for the transport (0: none)     *)
(*   res         the response to the request that created the transport    *)
(*   http        the last response written by the router itself: the path  *)
(*               of the request, the status and the payload                *)
(*   context     per server instance, `let context`: NoContext (undefined) *)
(*               or a McpContext object {id, browser}; the id of an object *)
(*               is the invocation whose getContext call constructed it    *)
(*   locked, acquirers   per server instance, the state of toolMutex       *)
(*   pc, inst    per invocation, its pipeline state and server instance    *)
(*   browser     per invocation, `const browser` of its getContext call    *)
(*               (0 outside the call)                                      *)
(*   ctxOf       per invocation, `const context` of the tool callback      *)
(*   outcome     per invocation, what its promise settled with             *)
(*   failedAt    per invocation, the pipeline state whose await rejected   *)
(*   thrown      per invocation, the value that await rejected with        *)
(*   ran         per invocation, which of tool.handler ("handler") and     *)
(*               response.handle ("handle") it has called                  *)
(*   acquires, releases   per invocation, guards obtained and disposed     *)
(*   tools       the array `tools` of createServer: the descriptors in the *)
(*               order the tool modules export them                        *)
(*   toggles     config.categoryEmulation / Performance / Network          *)
(*   registered  the names passed to server.registerTool, in call order    *)
(*   created     whether createServer has returned the server              *)
(***************************************************************************)
VARIABLES sessions, tstate, closed, sessionId, serverOf, res, http,
          context, locked, acquirers,
          pc, inst, browser, ctxOf, outcome,
          failedAt, thrown, ran, acquires, releases,
          tools, toggles, registered, created

transportVars == <<sessions, tstate, closed, sessionId, serverOf, res>>
serverVars == <<context, locked, acquirers>>
callVars == <<pc, inst, browser, ctxOf, outcome, failedAt, thrown, ran, acquires, releases>>
toolVars == <<tools, toggles, registered, created>>
vars == <<sessions, tstate, closed, sessionId, serverOf, res, http,
          context, locked, acquirers,
          pc, inst, browser, ctxOf, outcome,
          failedAt, thrown, ran, acquires, releases,
          tools, toggles, registered, created>>

NoHeader == [present |-> FALSE, id |-> 0]
NoRequest == [path |-> "", status |-> "", body |-> [text |-> ""]]
NoContext == [id |-> 0, browser |-> 0]

\* The transport adapters, server instances and invocations of the run.
Transports == DOMAIN tstate
Servers == DOMAIN context
Calls == DOMAIN pc
NoOutcome == [kind |-> "none", isError |-> FALSE, content |-> << >>, error |-> NoError]

\* All categories enabled (the default of loadConfig).
AllCategories ==
  [categoryEmulation |-> TRUE, categoryPerformance |-> TRUE, categoryNetwork |-> TRUE]

\* The catalogue is left out: no descriptors.
NoTools ==
  /\ tools = << >>
  /\ toggles = AllCategories
  /\ registered = << >>
  /\ created = FALSE

\* Nothing constructed yet: room for ns sessions and n invocations.
Started(ns, n) ==
  /\ sessions = << >>
  /\ tstate = [t \in 1 .. ns |-> "none"]
  /\ closed = [t \in 1 .. ns |-> FALSE]
  /\ sessionId = [t \in 1 .. ns |-> 0]
  /\ serverOf = [t \in 1 .. ns |-> 0]
  /\ res = [t \in 1 .. ns |-> ""]
  /\ http = NoRequest
  /\ context = [s \in 1 .. ns |-> NoContext]
  /\ locked = [s \in 1 .. ns |-> FALSE]
  /\ acquirers = [s \in 1 .. ns |-> << >>]
  /\ pc = [c \in 1 .. n |-> "Idle"]
  /\ inst = [c \in 1 .. n |-> 0]
  /\ browser = [c \in 1 .. n |-> 0]
  /\ ctxOf = [c \in 1 .. n |-> NoContext]
  /\ outcome = [c \in 1 .. n |-> NoOutcome]
  /\ failedAt = [c \in 1 .. n |-> ""]
  /\ thrown = [c \in 1 .. n |-> NoError]
  /\ ran = [c \in 1 .. n |-> {}]
  /\ acquires = [c \in 1 .. n |-> 0]
  /\ releases = [c \in 1 .. n |-> 0]

InitWith(ns, n) == NoTools /\ Started(ns, n)

Init == InitWith(MaxSessions, MaxSessionCalls)

(***************************************************************************)
(* The multi-session HTTP transport.                                       *)
(***************************************************************************)
\* res.statusCode / res.writeHead(st, ...) and res.end(b) for a request to p.
Answer(p, st, b) == [path |-> p, status |-> st, body |-> b]

\* res.end(text) and res.end(JSON.stringify({status: 'healthy', timestamp:
\* new Date().toISOString()})): the payload as the client parses it; the
\* timestamp is the clock's reading, an ISO 8601 string.
Text(t) == [text |-> t]
HealthPayload == [status |-> "healthy", timestamp |-> "ISO8601"]

\* url.pathname: "/other" stands for every pathname but /mcp and /health.
Paths == {"/mcp", "/health", "/other"}

\* sessions.set(k, v) and sessions.delete(k) of a Map.
MapSet(map, k, v) == [x \in (DOMAIN map) \cup {k} |-> IF x = k THEN v ELSE map[x]]
MapDelete(map, k) == [x \in (DOMAIN map) \ {k} |-> map[x]]

\* A generator that hands the same id to every adapter.
randomUUIDFixed(t) == 1

\* sessionIdGenerator: () => randomUUID(), an id no other adapter gets: the
\* k-th adapter constructed gets the id k.
randomUUID(t) == t

\* serverFactory(): createServer builds a new instance on every call.
Constructed == {t \in Transports : tstate[t] # "none"}
serverFactory == Cardinality(Constructed) + 1
NewTransport == CHOOSE t \in Transports \ Constructed : \A u \in Transports \ Constructed : t <= u

\* A health check that reports the service down while no session exists.
handleHealthCheckBySessions ==
  /\ http' = IF DOMAIN sessions = {}
             THEN Answer("/health", "503", Text("no sessions"))
             ELSE Answer("/health", "200", HealthPayload)
  /\ UNCHANGED <<transportVars, serverVars, callVars, toolVars>>

\* handleHealthCheck(res): takes the response only.
handleHealthCheck ==
  /\ http' = Answer("/health", "200", HealthPayload)
  /\ UNCHANGED <<transportVars, serverVars, callVars, toolVars>>

\* handleNotFound(res)
handleNotFound ==
  /\ http' = Answer("/other", "404", Text("Not Found"))
  /\ UNCHANGED <<transportVars, serverVars, callVars, toolVars>>

(***************************************************************************)
(* createNewSession up to its first await: build the server instance and   *)
(* the transport adapter, set onclose, call serverInstance.connect.        *)
(***************************************************************************)
createNewSession(m, h) ==
  /\ ~Truthy(h)
  /\ m = "POST"
  /\ Constructed # Transports
  /\ LET t == NewTransport IN
       /\ tstate' = [tstate EXCEPT ![t] = "connecting"]
       /\ serverOf' = [serverOf EXCEPT ![t] = serverFactory]
       /\ res' = [res EXCEPT ![t] = "pending"]
  /\ UNCHANGED <<sessions, closed, sessionId, http, toolVars, serverVars, callVars>>

\* A router that creates a session for every request without session id.
AnyMethodCreates(m, h) ==
  /\ ~Truthy(h)
  /\ m # "POST"
  /\ createNewSession("POST", h)

\* handleMcpRequest, the last statements: no session id and not a POST.
InvalidRequest(m, h) ==
  /\ ~Truthy(h)
  /\ m # "POST"
  /\ http' = Answer("/mcp", "400", Text("Invalid request"))
  /\ UNCHANGED <<transportVars, serverVars, callVars, toolVars>>

\* A router that treats an id it does not know as no id at all.
UnknownAsNoId(m, h) ==
  /\ Truthy(h)
  /\ h.id \notin DOMAIN sessions
  /\ IF m = "POST" /\ Constructed # Transports
     THEN createNewSession(m, NoHeader)
     ELSE /\ http' = Answer("/mcp", "400", Text("Invalid request"))
          /\ UNCHANGED <<transportVars, serverVars, callVars, toolVars>>

\* handleMcpRequest, `if (!session)`: the id is not in the registry.
SessionNotFound(m, h) ==
  /\ Truthy(h)
  /\ h.id \notin DOMAIN sessions
  /\ http' = Answer("/mcp", "404", Text("Session not found"))
  /\ UNCHANGED <<transportVars, serverVars, callVars, toolVars>>

\* serverInstance.connect resolved: transport.handleRequest(req, res) is called.
ConnectReturned(t) ==
  /\ tstate[t] = "connecting"
  /\ tstate' = [tstate EXCEPT ![t] = "handling"]
  /\ UNCHANGED <<sessions, closed, sessionId, serverOf, res, http, toolVars, serverVars, callVars>>

\* serverInstance.connect rejected: catch, 500.
ConnectFailed(t) ==
  /\ tstate[t] = "connecting"
  /\ tstate' = [tstate EXCEPT ![t] = "ready"]
  /\ res' = [res EXCEPT ![t] = "500"]
  /\ UNCHANGED <<sessions, closed, sessionId, serverOf, http, toolVars, serverVars, callVars>>

(***************************************************************************)
(* Inside transport.handleRequest, the creating request is an initialize   *)
(* request: the adapter sets its sessionId from sessionIdGenerator and     *)
(* calls onsessioninitialized, which registers the session.                *)
(***************************************************************************)
onsessioninitialized(t) ==
  /\ tstate[t] = "handling"
  /\ sessionId[t] = 0
  /\ LET id == randomUUID(t) IN
       /\ sessionId' = [sessionId EXCEPT ![t] = id]
       /\ sessions' = MapSet(sessions, id, [transport |-> t, server |-> serverOf[t]])
  /\ UNCHANGED <<tstate, closed, serverOf, res, http, toolVars, serverVars, callVars>>

\* transport.handleRequest of the creating request resolved (the adapter
\* answered: 200 after a handshake, 400 when the request was no initialize).
HandleRequestReturned(t) ==
  /\ tstate[t] = "handling"
  /\ tstate' = [tstate EXCEPT ![t] = "ready"]
  /\ res' = [res EXCEPT ![t] = IF sessionId[t] # 0 THEN "200" ELSE "400"]
  /\ UNCHANGED <<sessions, closed, sessionId, serverOf, http, toolVars, serverVars, callVars>>

\* transport.handleRequest of the creating request rejected: catch, 500.
HandleRequestFailed(t) ==
  /\ tstate[t] = "handling"
  /\ tstate' = [tstate EXCEPT ![t] = "ready"]
  /\ res' = [res EXCEPT ![t] = "500"]
  /\ UNCHANGED <<sessions, closed, sessionId, serverOf, http, toolVars, serverVars, callVars>>

\* A close callback that leaves the registry alone.
oncloseKeeps(t) ==
  /\ sessions' = sessions
  /\ closed' = [closed EXCEPT ![t] = TRUE]

\* transport.onclose: `if (transport.sessionId) sessions.delete(...)`.
onclose(t) ==
  /\ sessions' = IF sessionId[t] # 0 THEN MapDelete(sessions, sessionId[t]) ELSE sessions
  /\ closed' = [closed EXCEPT ![t] = TRUE]

\* A close that also abandons the invocations of the session in flight.
ForwardDeleteCancels(h) ==
  /\ Truthy(h)
  /\ h.id \in DOMAIN sessions
  /\ onclose(sessions[h.id].transport)
  /\ pc' = [c \in DOMAIN pc |->
              IF inst[c] = sessions[h.id].server /\ pc[c] \notin {"Idle", "Done", "Failed"}
              THEN "Failed" ELSE pc[c]]
  /\ UNCHANGED <<tstate, sessionId, serverOf, res, http, toolVars, serverVars, inst,
                 browser, ctxOf, outcome, failedAt, thrown, ran, acquires, releases>>

(***************************************************************************)
(* handleMcpRequest with a registered id: session.transport.handleRequest. *)
(* A DELETE makes the adapter close itself, which runs onclose.            *)
(***************************************************************************)
ForwardDelete(h) ==
  /\ Truthy(h)
  /\ h.id \in DOMAIN sessions
  /\ onclose(sessions[h.id].transport)
  /\ UNCHANGED <<tstate, sessionId, serverOf, res, http, toolVars, serverVars, callVars>>

(***************************************************************************)
(* The invocation pipeline: the tool callback registered by registerTool.  *)
(* Await hops that change no state of the model are merged with the run    *)
(* that follows them.                                                      *)
(***************************************************************************)
Holding == {"Guarded", "ContextResolving", "ContextBuilding", "PreCheck",
            "HandlerRunning", "ResponseBuilding"}
Terminal == {"Done", "Failed"}

\* The pipeline states of the calls in `upd` change.
Move(upd) == pc' = [c \in Calls |-> IF c \in DOMAIN upd THEN upd[c] ELSE pc[c]]

(***************************************************************************)
(* Mutex (FIFO on contention).  acquire(): take the lock when it is free,  *)
(* otherwise wait in the queue.  release(): hand the lock to the first     *)
(* waiter, or unlock.                                                      *)
(***************************************************************************)
MutexAcquire(s, i) ==
  IF locked[s]
  THEN [locked |-> TRUE, acquirers |-> Append(acquirers[s], i), granted |-> FALSE]
  ELSE [locked |-> TRUE, acquirers |-> acquirers[s], granted |-> TRUE]

MutexRelease(lk, q) ==
  IF q = << >>
  THEN [locked |-> FALSE, acquirers |-> << >>, woken |-> {}]
  ELSE [locked |-> TRUE, acquirers |-> Tail(q), woken |-> {Head(q)}]

\* One mutex for every server instance.
toolMutexShared(s) == CHOOSE r \in Servers : \A q \in Servers : r <= q

\* `const toolMutex = new Mutex()` is a constant of the createServer call:
\* one mutex per instance.
toolMutex(s) == s

\* Invocations are numbered in the order they arrive.
NextCall == CHOOSE i \in Calls : pc[i] = "Idle" /\ \A j \in Calls : pc[j] = "Idle" => i <= j

\* The tool callback starts for invocation i on instance s; a is what
\* toolMutex.acquire() did.
Dispatch(i, s, a) ==
  /\ inst' = [inst EXCEPT ![i] = s]
  /\ locked' = [locked EXCEPT ![toolMutex(s)] = a.locked]
  /\ acquirers' = [acquirers EXCEPT ![toolMutex(s)] = a.acquirers]
  /\ acquires' = [acquires EXCEPT ![i] = IF a.granted THEN @ + 1 ELSE @]
  /\ Move(i :> (IF a.granted THEN "Guarded" ELSE "Queued"))
  /\ UNCHANGED <<transportVars, http, toolVars, context, browser, ctxOf, outcome,
                 failedAt, thrown, ran, releases>>

\* A callback that never takes the mutex.
ToolCallUnguarded(h) ==
  /\ Truthy(h)
  /\ h.id \in DOMAIN sessions
  /\ \E c \in Calls : pc[c] = "Idle"
  /\ LET s == sessions[h.id].server
     IN Dispatch(NextCall, s,
                 [locked |-> locked[toolMutex(s)],
                  acquirers |-> acquirers[toolMutex(s)], granted |-> TRUE])

(***************************************************************************)
(* A tools/call request forwarded to a registered session: the adapter     *)
(* dispatches it to the tool callback of the session's server instance,    *)
(* which runs up to `await toolMutex.acquire()`.                           *)
(***************************************************************************)
ToolCall(h) ==
  /\ Truthy(h)
  /\ h.id \in DOMAIN sessions
  /\ \E c \in Calls : pc[c] = "Idle"
  /\ LET s == sessions[h.id].server
     IN Dispatch(NextCall, s, MutexAcquire(toolMutex(s), NextCall))

\* getContext() is entered in state `from`.
EnterFrom(i, from) ==
  /\ pc[i] \in from
  /\ Move(i :> "ContextResolving")
  /\ UNCHANGED <<transportVars, http, toolVars, serverVars, inst, browser, ctxOf, outcome,
                 failedAt, thrown, ran, acquires, releases>>

\* toolMutex.acquire() called but not awaited: the callback goes on while
\* it is still in the queue.
EnterUnawaited(i) == EnterFrom(i, {"Guarded", "Queued"})

\* The guard is held: logger, getContext() up to `await ensureBrowser...`.
Enter(i) == EnterFrom(i, {"Guarded"})

\* catch (err): `error.message` is read before `throw err`; reading a
\* property of undefined throws a TypeError, which is raised instead.
Rethrown(err) ==
  IF err.kind = "undefined" THEN ErrorOf(NullReadText) ELSE err

Fault(err) == [kind |-> "fault", isError |-> FALSE, content |-> << >>, error |-> err]
Result(content, isError) ==
  [kind |-> "result", isError |-> isError, content |-> content, error |-> NoError]

\* The callback's promise settles with o after n calls of guard.dispose().
Settle(i, o, n) ==
  LET s == toolMutex(inst[i])
      r1 == MutexRelease(locked[s], acquirers[s])
      r2 == MutexRelease(r1.locked, r1.acquirers)
      lk == IF n = 0 THEN locked[s] ELSE IF n = 1 THEN r1.locked ELSE r2.locked
      q == IF n = 0 THEN acquirers[s] ELSE IF n = 1 THEN r1.acquirers ELSE r2.acquirers
      woken == IF n = 0 THEN {} ELSE IF n = 1 THEN r1.woken ELSE r1.woken \cup r2.woken
  IN /\ locked' = [locked EXCEPT ![s] = lk]
     /\ acquirers' = [acquirers EXCEPT ![s] = q]
     /\ releases' = [releases EXCEPT ![i] = @ + n]
     /\ acquires' = [c \in Calls |-> IF c \in woken THEN acquires[c] + 1 ELSE acquires[c]]
     /\ outcome' = [outcome EXCEPT ![i] = o]
     /\ browser' = [browser EXCEPT ![i] = 0]
     /\ ctxOf' = [ctxOf EXCEPT ![i] = NoContext]
     /\ Move((i :> (IF o.kind = "fault" THEN "Failed" ELSE "Done")) @@
             [c \in woken |-> "Guarded"])
     /\ UNCHANGED <<transportVars, http, toolVars, inst, ran>>

\* guard.dispose() after the try block instead of in a finally: a fault
\* leaves the mutex locked.
FinallyLeaky(i, o) == Settle(i, o, IF o.kind = "fault" THEN 0 ELSE 1)

\* guard.dispose() in the catch block and in the finally block.
FinallyTwice(i, o) == Settle(i, o, IF o.kind = "fault" THEN 2 ELSE 1)

(***************************************************************************)
(* finally { guard.dispose(); }, after which the callback's promise        *)
(* settles with outcome o, in the same synchronous run.                    *)
(***************************************************************************)
Finally(i, o) == Settle(i, o, 1)

\* The outer catch and finally: log, rethrow, release.
Throw(i, err) == Finally(i, Fault(Rethrown(err)))

\* `return {...}` inside the try: the finally runs, then the promise resolves.
Return(i, result) == Finally(i, result)

\* The promise awaited in the current pipeline state rejected with e.
Rejected(i, e) ==
  /\ failedAt' = [failedAt EXCEPT ![i] = pc[i]]
  /\ thrown' = [thrown EXCEPT ![i] = e]

\* A `let context` shared by every server instance.
ContextCellShared(s) == 1

\* `let context` is a variable of the createServer call: one per instance.
ContextCell(s) == s

\* `context` as the instance s sees it.
Memo(s) == context[ContextCell(s)]

\* A getContext that never reuses the memoized context.
NeedsNewContextAlways(s, b) == TRUE

\* A getContext that builds a context only when none is memoized.
NeedsNewContextWhenNone(s, b) == Memo(s) = NoContext

\* `context?.browser !== browser` (context?.browser of undefined is undefined)
NeedsNewContext(s, b) == Memo(s).browser # b

(***************************************************************************)
(* getContext after ensureBrowserConnected / ensureBrowserLaunched         *)
(* resolved with handle b: build a context when the memoized one is for    *)
(* another handle, otherwise return the memoized one; the callback then    *)
(* calls context.detectOpenDevToolsWindows().                              *)
(***************************************************************************)
BrowserResolved(i, b) ==
  /\ pc[i] = "ContextResolving"
  /\ browser' = [browser EXCEPT ![i] = b]
  /\ IF NeedsNewContext(inst[i], b)
     THEN /\ Move(i :> "ContextBuilding")
          /\ UNCHANGED ctxOf
     ELSE /\ Move(i :> "PreCheck")
          /\ ctxOf' = [ctxOf EXCEPT ![i] = Memo(inst[i])]
  /\ UNCHANGED <<transportVars, http, toolVars, serverVars, inst, outcome,
                 failedAt, thrown, ran, acquires, releases>>

\* A failed connect or launch that also drops the memoized context.
BrowserFailedForgets(i, e) ==
  /\ pc[i] = "ContextResolving"
  /\ Rejected(i, e)
  /\ Throw(i, e)
  /\ context' = [context EXCEPT ![ContextCell(inst[i])] = NoContext]

\* ensureBrowserConnected / ensureBrowserLaunched rejected.
BrowserFailed(i, e) ==
  /\ pc[i] = "ContextResolving"
  /\ Rejected(i, e)
  /\ Throw(i, e)
  /\ UNCHANGED context

\* McpContext.from(browser, ...): a new context object for the handle.
McpContextFrom(i, b) == [id |-> i, browser |-> b]

\* McpContext.from resolved: `context = ...; return context;`.
ContextBuilt(i) ==
  /\ pc[i] = "ContextBuilding"
  /\ context' = [context EXCEPT ![ContextCell(inst[i])] = McpContextFrom(i, browser[i])]
  /\ ctxOf' = [ctxOf EXCEPT ![i] = McpContextFrom(i, browser[i])]
  /\ Move(i :> "PreCheck")
  /\ UNCHANGED <<transportVars, http, toolVars, locked, acquirers, inst, browser, outcome,
                 failedAt, thrown, ran, acquires, releases>>

\* McpContext.from rejected.
ContextBuildFailed(i, e) ==
  /\ pc[i] = "ContextBuilding"
  /\ Rejected(i, e)
  /\ Throw(i, e)
  /\ UNCHANGED context

\* detectOpenDevToolsWindows resolved: new McpResponse(), tool.handler(...).
PreCheckReturned(i) ==
  /\ pc[i] = "PreCheck"
  /\ Move(i :> "HandlerRunning")
  /\ ran' = [ran EXCEPT ![i] = @ \cup {"handler"}]
  /\ UNCHANGED <<transportVars, http, toolVars, serverVars, inst, browser, ctxOf, outcome,
                 failedAt, thrown, acquires, releases>>

\* A failed pre-check that is swallowed: the handler is called all the same.
PreCheckFailedSwallowed(i, e) ==
  /\ pc[i] = "PreCheck"
  /\ Rejected(i, e)
  /\ Move(i :> "HandlerRunning")
  /\ ran' = [ran EXCEPT ![i] = @ \cup {"handler"}]
  /\ UNCHANGED <<transportVars, http, toolVars, serverVars, inst, browser, ctxOf, outcome,
                 acquires, releases>>

\* detectOpenDevToolsWindows rejected.
PreCheckFailed(i, e) ==
  /\ pc[i] = "PreCheck"
  /\ Rejected(i, e)
  /\ Throw(i, e)
  /\ UNCHANGED context

\* tool.handler resolved: response.handle(tool.name, context) is called.
HandlerReturned(i) ==
  /\ pc[i] = "HandlerRunning"
  /\ Move(i :> "ResponseBuilding")
  /\ ran' = [ran EXCEPT ![i] = @ \cup {"handle"}]
  /\ UNCHANGED <<transportVars, http, toolVars, serverVars, inst, browser, ctxOf, outcome,
                 failedAt, thrown, acquires, releases>>

\* tool.handler rejected.
HandlerFailed(i, e) ==
  /\ pc[i] = "HandlerRunning"
  /\ Rejected(i, e)
  /\ Throw(i, e)
  /\ UNCHANGED context

\* The content response.handle resolves with.
HandledContent == <<[type |-> "text", text |-> <<"o", "k">>]>>

\* response.handle resolved: `return {content}`.
HandleReturned(i) ==
  /\ pc[i] = "ResponseBuilding"
  /\ Return(i, Result(HandledContent, FALSE))
  /\ UNCHANGED <<context, failedAt, thrown>>

\* String(error): undefined gives "undefined"; an object without toString
\* cannot be converted (TypeError).
CanStringify(e) == e.kind # "noproto"
String(e) == IF e.kind = "undefined" THEN UndefinedText ELSE e.text

\* `error instanceof Error ? error.message : String(error)`
errorText(e) == IF e.kind = "Error" THEN e.text ELSE String(e)

(***************************************************************************)
(* response.handle rejected: the inner catch returns an isError result     *)
(* carrying errorText; when String(error) itself throws, that TypeError    *)
(* leaves the inner catch and reaches the outer one.                       *)
(***************************************************************************)
HandleFailed(i, e) ==
  /\ pc[i] = "ResponseBuilding"
  /\ Rejected(i, e)
  /\ IF e.kind = "Error" \/ CanStringify(e)
     THEN Return(i, Result(<<[type |-> "text", text |-> errorText(e)]>>, TRUE))
     ELSE Throw(i, ErrorOf(NoPrimitiveText))
  /\ UNCHANGED context

(***************************************************************************)
(* handleMcpRequest(req, res, serverFactory) for a request with method m   *)
(* and mcp-session-id header h: the branch the code takes.  A forwarded    *)
(* request that neither closes the session nor calls a tool changes no     *)
(* state of the model.                                                     *)
(***************************************************************************)
handleMcpRequest(m, h) ==
  \/ SessionNotFound(m, h)
  \/ (m = "DELETE" /\ ForwardDelete(h))
  \/ (m = "POST" /\ ToolCall(h))
  \/ createNewSession(m, h)
  \/ InvalidRequest(m, h)

\* httpServer.on('request'): switch (url.pathname), for a request to path p
\* with method m and mcp-session-id header h.
OnRequest(p, m, h) ==
  IF p = "/mcp" THEN handleMcpRequest(m, h)
  ELSE IF p = "/health" THEN handleHealthCheck
  ELSE handleNotFound

(***************************************************************************)
(* The router's own answers, the session lifecycle, and the pipeline with  *)
(* handler and finalization failures drawn from the set E.                 *)
(***************************************************************************)
Router ==
  \/ handleHealthCheck
  \/ handleNotFound
  \/ \E m \in Methods, h \in Headers : SessionNotFound(m, h)
  \/ \E m \in Methods, h \in Headers : InvalidRequest(m, h)

Lifecycle ==
  \/ \E m \in Methods, h \in Headers : createNewSession(m, h)
  \/ \E t \in Transports : ConnectReturned(t)
  \/ \E t \in Transports : ConnectFailed(t)
  \/ \E t \in Transports : onsessioninitialized(t)
  \/ \E t \in Transports : HandleRequestReturned(t)
  \/ \E t \in Transports : HandleRequestFailed(t)
  \/ \E h \in Headers : ForwardDelete(h)

Pipeline(E) ==
  \/ \E h \in Headers : ToolCall(h)
  \/ \E i \in Calls : Enter(i)
  \/ \E i \in Calls, b \in Browsers : BrowserResolved(i, b)
  \/ \E i \in Calls, e \in DriverErrors : BrowserFailed(i, e)
  \/ \E i \in Calls : ContextBuilt(i)
  \/ \E i \in Calls, e \in DriverErrors : ContextBuildFailed(i, e)
  \/ \E i \in Calls : PreCheckReturned(i)
  \/ \E i \in Calls, e \in DriverErrors : PreCheckFailed(i, e)
  \/ \E i \in Calls : HandlerReturned(i)
  \/ \E i \in Calls, e \in E : HandlerFailed(i, e)
  \/ \E i \in Calls : HandleReturned(i)
  \/ \E i \in Calls, e \in E : HandleFailed(i, e)

\* The whole runtime.
Next == Router \/ Lifecycle \/ Pipeline(AnyErrors)
Spec == Init /\ [][Next]_vars

(***************************************************************************)
(* The tool catalogue of createServer: the descriptors of the tool         *)
(* modules, sorted by name and registered unless their category is         *)
(* switched off.  Names are globally unique.                               *)
(***************************************************************************)
Categories == {"EMULATION", "PERFORMANCE", "NETWORK", "OTHER"}

\* Characters in the order of the collation: punctuation before letters.
Collation == <<"_", "a", "b">>
Rank(c) == CHOOSE k \in 1 .. Len(Collation) : Collation[k] = c

ToolPool ==
  << [name |-> <<"a", "_">>, category |-> "EMULATION"],
     [name |-> <<"a", "b">>, category |-> "PERFORMANCE"],
     [name |-> <<"a">>, category |-> "NETWORK"],
     [name |-> <<"b">>, category |-> "OTHER"],
     [name |-> <<"_", "b">>, category |-> "OTHER"] >>

Descriptors == {ToolPool[k] : k \in 1 .. MaxTools}

\* Every array of distinct descriptors: every subset in every order.
ToolArrays ==
  {a \in UNION {[1 .. n -> Descriptors] : n \in 0 .. MaxTools} :
     \A k, l \in DOMAIN a : k # l => a[k] # a[l]}

Configs ==
  [categoryEmulation : BOOLEAN, categoryPerformance : BOOLEAN, categoryNetwork : BOOLEAN]

\* a.localeCompare(b): negative, zero or positive.
RECURSIVE localeCompare(_, _)
localeCompare(a, b) ==
  IF a = << >> /\ b = << >> THEN 0
  ELSE IF a = << >> THEN -1
  ELSE IF b = << >> THEN 1
  ELSE IF Rank(Head(a)) < Rank(Head(b)) THEN -1
  ELSE IF Rank(Head(a)) > Rank(Head(b)) THEN 1
  ELSE localeCompare(Tail(a), Tail(b))

\* tools.sort((a, b) => a.name.localeCompare(b.name)): a stable sort.
RECURSIVE SortInsert(_, _)
SortInsert(a, t) ==
  IF a = << >> THEN <<t>>
  ELSE IF localeCompare(t.name, Head(a).name) < 0 THEN <<t>> \o a
  ELSE <<Head(a)>> \o SortInsert(Tail(a), t)

RECURSIVE sort(_)
sort(a) ==
  IF a = << >> THEN << >>
  ELSE SortInsert(sort(SubSeq(a, 1, Len(a) - 1)), a[Len(a)])

\* A registerTool that looks at the network toggle only.
RegistersUnlessNetwork(tool, config) ==
  ~(tool.category = "NETWORK" /\ config.categoryNetwork = FALSE)

\* registerTool reaches server.registerTool: none of the three early
\* returns is taken.
Registers(tool, config) ==
  /\ ~(tool.category = "EMULATION" /\ config.categoryEmulation = FALSE)
  /\ ~(tool.category = "PERFORMANCE" /\ config.categoryPerformance = FALSE)
  /\ ~(tool.category = "NETWORK" /\ config.categoryNetwork = FALSE)

\* for (const tool of tools) registerTool(tool): the names registered.
RECURSIVE RegisterEach(_, _)
RegisterEach(a, config) ==
  IF a = << >> THEN << >>
  ELSE (IF Registers(Head(a), config) THEN <<Head(a).name>> ELSE << >>)
         \o RegisterEach(Tail(a), config)

\* createServer from `const tools = [...]` to `return server`.
createServer ==
  /\ ~created
  /\ registered' = RegisterEach(sort(tools), toggles)
  /\ created' = TRUE
  /\ UNCHANGED <<tools, toggles, transportVars, http, serverVars, callVars>>

\* Any descriptors in any order, any setting of the toggles.
CatalogueInit ==
  /\ Started(0, 0)
  /\ tools \in ToolArrays
  /\ toggles \in Configs
  /\ registered = << >>
  /\ created = FALSE

CatalogueNext == createServer
CatalogueSpec == CatalogueInit /\ [][CatalogueNext]_vars

(***************************************************************************)
(* Two sessions of the transport and two invocations, the case the         *)
(* isolation of sessions is about, without the router's own answers        *)
(* (which change http only); failures are Errors.                          *)
(***************************************************************************)
TwoSessions == InitWith(2, 2)
SessionsNext == Lifecycle \/ Pipeline(DriverErrors)
SessionsSpec == TwoSessions /\ [][SessionsNext]_vars

\* Requests to /health and to other paths arriving at any moment in the
\* life of two sessions and two invocations; failures are Errors.
ProbeNext ==
  \/ handleHealthCheck
  \/ handleNotFound
  \/ Lifecycle
  \/ Pipeline(DriverErrors)
ProbeSpec == TwoSessions /\ [][ProbeNext]_vars

\* The router and the session lifecycle, without invocations.
RouterNext == Router \/ Lifecycle
RouterSpec == InitWith(MaxSessions, 0) /\ [][RouterNext]_vars

(***************************************************************************)
(* One server instance serving its session: the state after a session-less *)
(* POST completed its handshake, and from there MaxCalls invocations.      *)
(***************************************************************************)
Serving ==
  /\ NoTools
  /\ sessions = (1 :> [transport |-> 1, server |-> 1])
  /\ tstate = (1 :> "ready")
  /\ closed = (1 :> FALSE)
  /\ sessionId = (1 :> 1)
  /\ serverOf = (1 :> 1)
  /\ res = (1 :> "200")
  /\ http = NoRequest
  /\ context = (1 :> NoContext)
  /\ locked = (1 :> FALSE)
  /\ acquirers = (1 :> << >>)
  /\ pc = [c \in 1 .. MaxCalls |-> "Idle"]
  /\ inst = [c \in 1 .. MaxCalls |-> 0]
  /\ browser = [c \in 1 .. MaxCalls |-> 0]
  /\ ctxOf = [c \in 1 .. MaxCalls |-> NoContext]
  /\ outcome = [c \in 1 .. MaxCalls |-> NoOutcome]
  /\ failedAt = [c \in 1 .. MaxCalls |-> ""]
  /\ thrown = [c \in 1 .. MaxCalls |-> NoError]
  /\ ran = [c \in 1 .. MaxCalls |-> {}]
  /\ acquires = [c \in 1 .. MaxCalls |-> 0]
  /\ releases = [c \in 1 .. MaxCalls |-> 0]

PipelineNext == Pipeline(AnyErrors)
PipelineSpec == Serving /\ [][PipelineNext]_vars

(***************************************************************************)
(* Fairness of one serving instance: every step an invocation has started  *)
(* (the continuation after the guard, the browser connection, the context  *)
(* construction, the pre-check, the handler, the finalization) eventually  *)
(* returns or fails.  Clients need not submit invocations.  Failures are   *)
(* Errors: the guard is released in the same finally whatever the value.   *)
(***************************************************************************)
StepEnds(i) ==
  \/ Enter(i)
  \/ \E b \in Browsers : BrowserResolved(i, b)
  \/ \E e \in DriverErrors : BrowserFailed(i, e)
  \/ ContextBuilt(i)
  \/ \E e \in DriverErrors : ContextBuildFailed(i, e)
  \/ PreCheckReturned(i)
  \/ \E e \in DriverErrors : PreCheckFailed(i, e)
  \/ HandlerReturned(i)
  \/ \E e \in DriverErrors : HandlerFailed(i, e)
  \/ HandleReturned(i)
  \/ \E e \in DriverErrors : HandleFailed(i, e)

FairPipelineNext == Pipeline(DriverErrors)
FairPipelineSpec ==
  /\ Serving
  /\ [][FairPipelineNext]_vars
  /\ \A i \in 1 .. MaxCalls : WF_vars(StepEnds(i))

(***************************************************************************)
(* One serving instance whose session may be closed at any moment, under   *)
(* the same fairness.                                                      *)
(***************************************************************************)
ClosingNext ==
  \/ \E h \in Headers : ForwardDelete(h)
  \/ Pipeline(DriverErrors)
ClosingSpec ==
  /\ Serving
  /\ [][ClosingNext]_vars
  /\ \A i \in 1 .. MaxCalls : WF_vars(StepEnds(i))

(***************************************************************************)
(* Properties of the invocation pipeline.                                  *)
(***************************************************************************)
HoldersOf(s) == {i \in Calls : inst[i] = s /\ pc[i] \in Holding}

\* C1: on one server instance at most one invocation is between guard
\* acquisition and guard release, so context resolution, the pre-check, the
\* handler and the finalization of two invocations never overlap; the mutex
\* is locked while an invocation is there.
C1_MutualExclusion ==
  \A s \in Servers :
    /\ Cardinality(HoldersOf(s)) <= 1
    /\ HoldersOf(s) # {} => locked[s]

\* One invocation runs its handler while another of the same instance waits.
C1_Witness ==
  \E i, j \in Calls :
    inst[i] = inst[j] /\ pc[i] = "HandlerRunning" /\ pc[j] = "Queued"

\* C2: invocations of one instance get the guard in arrival order and
\* complete in arrival order: an invocation holds the guard or has completed
\* only when every invocation that arrived before it has completed, and the
\* waiters queue in arrival order.
C2_ArrivalOrder ==
  /\ \A i, j \in Calls :
       (i < j /\ inst[i] # 0 /\ inst[i] = inst[j] /\ pc[j] \in Holding \cup Terminal)
         => pc[i] \in Terminal
  /\ \A s \in Servers : \A m, n \in 1 .. Len(acquirers[s]) :
       m < n => acquirers[s][m] < acquirers[s][n]

\* Three invocations of one instance: the first completed, the second holds
\* the guard, the third still waits.
C2_Witness ==
  \E i, j, k \in Calls :
    /\ i < j /\ j < k /\ inst[i] = inst[j] /\ inst[j] = inst[k]
    /\ pc[i] \in Terminal /\ pc[j] \in Holding /\ pc[k] = "Queued"

\* C3: every guard acquisition is followed by exactly one release on every
\* exit path: an invocation that waits has no guard, one in the pipeline
\* holds one guard it has not released, one that ended (with a result, an
\* isError result or a fault from any step) released its one guard once.
C3_ReleaseOnce ==
  \A i \in Calls :
    /\ pc[i] \in {"Idle", "Queued"} => acquires[i] = 0 /\ releases[i] = 0
    /\ pc[i] \in Holding => acquires[i] = 1 /\ releases[i] = 0
    /\ pc[i] \in Terminal => acquires[i] = 1 /\ releases[i] = 1

\* Three exits of one run: a context-resolution fault, a handler fault and a
\* finalization failure turned into an isError result, each released once.
C3_Witness ==
  \E i, j, k \in Calls :
    /\ failedAt[i] = "ContextResolving" /\ pc[i] = "Failed" /\ releases[i] = 1
    /\ failedAt[j] = "HandlerRunning" /\ pc[j] = "Failed" /\ releases[j] = 1
    /\ outcome[k].isError /\ pc[k] = "Done" /\ releases[k] = 1

\* C4: when every started step eventually returns or fails, every submitted
\* invocation eventually holds the guard and eventually reaches Done or
\* Failed, whatever the invocations before it ended with.
C4_Progress ==
  \A i \in 1 .. MaxCalls :
    /\ (pc[i] = "Queued") ~> (acquires[i] = 1)
    /\ (pc[i] \in {"Queued", "Guarded"}) ~> (pc[i] \in Terminal)

\* An invocation completed although the two before it ended with faults.
C4_Witness ==
  \E i, j, k \in Calls :
    /\ i < j /\ j < k /\ inst[i] = inst[j] /\ inst[j] = inst[k]
    /\ pc[i] = "Failed" /\ pc[j] = "Failed" /\ pc[k] \in Terminal

\* C6: a handler that completes normally but whose finalization fails gives
\* a result with isError = true and non-empty text content, not a fault, for
\* every value the finalization fails with.
C6_SoftLanding ==
  \A i \in Calls :
    (pc[i] \in Terminal /\ failedAt[i] = "ResponseBuilding") =>
      /\ outcome[i].kind = "result"
      /\ outcome[i].isError
      /\ outcome[i].content # << >>
      /\ \A n \in 1 .. Len(outcome[i].content) :
           /\ outcome[i].content[n].type = "text"
           /\ outcome[i].content[n].text # EmptyText

\* C7: a handler failure is re-raised to the transport as a fault carrying
\* the same error value, never as an isError result; finalization is not
\* run, and the guard has been released when the fault is raised.
C7_HandlerFault ==
  \A i \in Calls :
    (pc[i] \in Terminal /\ failedAt[i] = "HandlerRunning") =>
      /\ outcome[i].kind = "fault"
      /\ outcome[i].error = thrown[i]
      /\ "handle" \notin ran[i]
      /\ releases[i] = 1

\* C9: getContext reuses the memoized context while the browser handle is
\* unchanged: when the resolved handle equals the handle of the memoized
\* context, McpContext.from is not called and the invocation goes on with
\* the memoized object; a context is replaced only by one for another handle.
C9_ContextReuse ==
  [][/\ \A i \in Calls :
          (pc[i] = "ContextResolving" /\ pc'[i] \notin {"ContextResolving", "Failed"}
           /\ Memo(inst[i]) # NoContext /\ browser'[i] = Memo(inst[i]).browser)
            => (pc'[i] = "PreCheck" /\ ctxOf'[i] = Memo(inst[i]) /\ context' = context)
     /\ \A s \in Servers :
          context'[s] # context[s] => context'[s].browser # context[s].browser]_vars

\* An invocation runs its handler with the context an earlier one built.
C9_Witness ==
  \E i \in Calls :
    pc[i] = "HandlerRunning" /\ ctxOf[i].id # 0 /\ ctxOf[i].id # i

(***************************************************************************)
(* C5: a request to /mcp whose session id is not in the registry is        *)
(* answered 404 and changes nothing else: no registry entry is inserted or *)
(* removed, no server instance and no transport adapter is created,        *)
(* whatever the registry holds and whatever the HTTP method is.            *)
(***************************************************************************)
C5_UnknownSession ==
  [][\A m \in Methods, h \in Headers :
       (Truthy(h) /\ h.id \notin DOMAIN sessions /\ handleMcpRequest(m, h))
         => /\ http' = Answer("/mcp", "404", Text("Session not found"))
            /\ UNCHANGED <<transportVars, serverVars, callVars, toolVars>>]_vars

\* A 404 was answered on /mcp while a session is registered and room for
\* another session is left.
C5_Witness ==
  /\ http = Answer("/mcp", "404", Text("Session not found"))
  /\ DOMAIN sessions # {}
  /\ Constructed # Transports

(***************************************************************************)
(* C8: two sessions of the multi-session transport never share an          *)
(* AutomationContext.  Every adapter constructed by a session-less POST    *)
(* has a server instance of its own, two instances never see the same      *)
(* memoized context, two invocations on different instances never work on  *)
(* the same context, the context and the guard of an instance change only  *)
(* in a step of an invocation on that instance, and the close callback of  *)
(* one session leaves every other session's registry entry, every adapter  *)
(* and every server instance as they were.                                 *)
(***************************************************************************)
OwnInstances ==
  /\ \A t, u \in Constructed : t # u => serverOf[t] # serverOf[u]
  /\ \A k, l \in DOMAIN sessions :
       k # l => /\ sessions[k].server # sessions[l].server
                /\ sessions[k].transport # sessions[l].transport
  /\ \A s, r \in Servers : (s # r /\ Memo(s) # NoContext) => Memo(s) # Memo(r)
  /\ \A i, j \in Calls :
       (inst[i] # inst[j] /\ ctxOf[i] # NoContext) => ctxOf[i] # ctxOf[j]

OwnState ==
  \A s \in Servers :
    (locked'[s] # locked[s] \/ acquirers'[s] # acquirers[s] \/ context'[s] # context[s])
      => \E i \in Calls : inst'[i] = s /\ pc'[i] # pc[i]

CloseIsLocal ==
  \A t \in Transports :
    (closed'[t] /\ ~closed[t])
      => /\ \A k \in DOMAIN sessions :
              sessions[k].transport # t
                => k \in DOMAIN sessions' /\ sessions'[k] = sessions[k]
         /\ DOMAIN sessions' \subseteq DOMAIN sessions
         /\ \A u \in Transports \ {t} : closed'[u] = closed[u]
         /\ UNCHANGED <<tstate, sessionId, serverOf, res, serverVars, callVars>>

C8_SessionIsolation == []OwnInstances /\ [][OwnState /\ CloseIsLocal]_vars

\* Both sessions built a context for the same browser handle, then one of
\* them was closed while the other stays registered.
C8_Witness ==
  /\ \E b \in Browsers : \A s \in Servers : Memo(s).browser = b
  /\ \E t \in Transports : closed[t] /\ sessionId[t] # 0
  /\ \E k \in DOMAIN sessions : ~closed[sessions[k].transport]

(***************************************************************************)
(* C10: when connecting to or launching the browser fails, the invocation  *)
(* that was resolving the context ends in a fault carrying that failure,   *)
(* its handler and its finalization have not run, the memoized context of  *)
(* every instance is what it was before the failure, the registry, the     *)
(* adapters and the other invocations are untouched, and an invocation     *)
(* that gets the guard always starts resolution anew, whatever failed      *)
(* before it.                                                              *)
(***************************************************************************)
ResolutionFails(i) == pc[i] = "ContextResolving" /\ pc'[i] = "Failed"

C10_ResolutionFailure ==
  [][\A i \in Calls :
       /\ ResolutionFails(i)
            => /\ outcome'[i].kind = "fault"
               /\ outcome'[i].error = thrown'[i]
               /\ ran'[i] = {}
               /\ context' = context
               /\ UNCHANGED transportVars
               /\ \A j \in Calls \ {i} :
                    /\ outcome'[j] = outcome[j]
                    /\ ran'[j] = ran[j]
                    /\ ctxOf'[j] = ctxOf[j]
                    /\ pc'[j] # pc[j] => pc[j] = "Queued" /\ pc'[j] = "Guarded"
       /\ (pc[i] = "Guarded" /\ pc'[i] # "Guarded") => pc'[i] = "ContextResolving"
       /\ (pc[i] = "ContextResolving" /\ pc'[i] = "PreCheck")
            => ctxOf'[i] = Memo(inst[i]) /\ context' = context]_vars

\* The first invocation built the context, the second one failed to reach
\* the browser, the third one resolved again and got the context the first
\* one had built.
C10_Witness ==
  \E i, j, k \in Calls :
    /\ i < j /\ j < k
    /\ pc[i] = "Done"
    /\ pc[j] = "Failed" /\ failedAt[j] = "ContextResolving"
    /\ pc[k] = "PreCheck"
    /\ ctxOf[k] = Memo(inst[k])
    /\ ctxOf[k].id = i

(***************************************************************************)
(* C11: a fault during session creation (serverInstance.connect or         *)
(* transport.handleRequest of the creating request rejects) is answered    *)
(* 500 and leaves no registry entry for the session being created,         *)
(* whether or not the session-initialization callback had fired.           *)
(***************************************************************************)
C11_FaultNotRegistered ==
  \A t \in Transports :
    res[t] = "500" => \A k \in DOMAIN sessions : sessions[k].transport # t

(***************************************************************************)
(* C12: a session is in the registry exactly from its initialization       *)
(* callback until its close callback: an adapter has an entry iff it has a *)
(* session id and has not closed, the entry is under that id, and a        *)
(* request bearing the id of a closed session is answered 404 and leaves   *)
(* the registry as it is.                                                  *)
(***************************************************************************)
RegisteredWhileLive ==
  /\ \A t \in Transports :
       (\E k \in DOMAIN sessions : sessions[k].transport = t)
         <=> (sessionId[t] # 0 /\ ~closed[t])
  /\ \A k \in DOMAIN sessions : sessionId[sessions[k].transport] = k

ClosedIsGone ==
  \A m \in Methods, h \in Headers :
    (/\ Truthy(h)
     /\ \E t \in Transports : closed[t] /\ sessionId[t] = h.id
     /\ handleMcpRequest(m, h))
      => /\ http' = Answer("/mcp", "404", Text("Session not found"))
         /\ sessions' = sessions

C12_RegistryLifetime == []RegisteredWhileLive /\ [][ClosedIsGone]_vars

\* One session was initialized and then closed, a request was answered 404
\* after that, and the other session is still being created.
C12_Witness ==
  /\ \E t \in Transports : closed[t] /\ sessionId[t] # 0
  /\ \E t \in Transports : tstate[t] = "handling" /\ sessionId[t] = 0
  /\ http = Answer("/mcp", "404", Text("Session not found"))

(***************************************************************************)
(* C13: a request to /mcp without session id (no header, or an empty one)  *)
(* whose method is not POST is answered 400 and changes nothing else: no   *)
(* session, server instance or transport adapter is created and the        *)
(* registry is unchanged.                                                  *)
(***************************************************************************)
C13_InvalidRequest ==
  [][\A m \in Methods, h \in Headers :
       (~Truthy(h) /\ m # "POST" /\ handleMcpRequest(m, h))
         => /\ http' = Answer("/mcp", "400", Text("Invalid request"))
            /\ UNCHANGED <<transportVars, serverVars, callVars, toolVars>>]_vars

\* A 400 was answered while one session is registered and another one is
\* being created.
C13_Witness ==
  /\ http = Answer("/mcp", "400", Text("Invalid request"))
  /\ DOMAIN sessions # {}
  /\ \E t \in Transports : tstate[t] = "connecting"

(***************************************************************************)
(* C14: a request to /health is answered 200 with the payload {status:     *)
(* "healthy", timestamp}, whatever the method and the state (registry      *)
(* empty or not, sessions being created, invocations in flight), and       *)
(* changes nothing else; a request to any path other than /mcp and /health *)
(* is answered 404 and changes nothing else.  The session header is not    *)
(* read on these paths.                                                    *)
(***************************************************************************)
C14_HealthAndNotFound ==
  [][\A p \in Paths \ {"/mcp"}, m \in Methods :
       OnRequest(p, m, NoHeader) =>
         /\ p = "/health" =>
              /\ http'.status = "200"
              /\ DOMAIN http'.body = {"status", "timestamp"}
              /\ http'.body.status = "healthy"
              /\ UNCHANGED <<transportVars, serverVars, callVars, toolVars>>
         /\ p \notin {"/mcp", "/health"} =>
              /\ http'.status = "404"
              /\ UNCHANGED <<transportVars, serverVars, callVars, toolVars>>]_vars

\* The health check answered while one session is registered, another one
\* is being created and a handler is running.
C14_Witness ==
  /\ http = Answer("/health", "200", HealthPayload)
  /\ DOMAIN sessions # {}
  /\ \E t \in Transports : tstate[t] = "handling"
  /\ \E i \in Calls : pc[i] = "HandlerRunning"

(***************************************************************************)
(* C15: for every order of the descriptors and every setting of the three  *)
(* toggles, the names registered on the server are exactly the names of    *)
(* the descriptors whose category is not switched off (EMULATION,          *)
(* PERFORMANCE and NETWORK are dropped iff their toggle is false, every    *)
(* other category is kept), each once, in ascending order of name.         *)
(***************************************************************************)
Disabled(c) ==
  \/ c = "EMULATION" /\ ~toggles.categoryEmulation
  \/ c = "PERFORMANCE" /\ ~toggles.categoryPerformance
  \/ c = "NETWORK" /\ ~toggles.categoryNetwork

C15_Catalogue ==
  created =>
    LET kept == {tools[k].name : k \in {l \in DOMAIN tools : ~Disabled(tools[l].category)}}
    IN /\ {registered[k] : k \in DOMAIN registered} = kept
       /\ Len(registered) = Cardinality(kept)
       /\ \A k, l \in DOMAIN registered :
            k < l => localeCompare(registered[k], registered[l]) < 0

\* Four descriptors exported in descending order of name, two categories
\* switched off: the two others are registered, in ascending order.
C15_Witness ==
  /\ created
  /\ Len(tools) = 4
  /\ \A k \in 1 .. 3 : localeCompare(tools[k].name, tools[k + 1].name) > 0
  /\ Len(registered) = 2
  /\ ~toggles.categoryNetwork

(***************************************************************************)
(* C16: server instances are independent.  An invocation waits only while  *)
(* an invocation of its own instance holds the guard, and an arriving      *)
(* invocation gets the guard at once unless an invocation of its own       *)
(* instance holds it, whatever invocations of other sessions do and        *)
(* however long their handlers run (no step of the pipeline is required    *)
(* to end here).                                                           *)
(***************************************************************************)
WaitsForOwnInstance ==
  \A i \in Calls :
    pc[i] = "Queued" => \E j \in Calls \ {i} : inst[j] = inst[i] /\ pc[j] \in Holding

GrantedUnlessOwnBusy ==
  \A i \in Calls :
    (pc[i] = "Idle" /\ pc'[i] # "Idle")
      => (pc'[i] = "Queued" <=> \E j \in Calls : inst[j] = inst'[i] /\ pc[j] \in Holding)

C16_Independence == []WaitsForOwnInstance /\ [][GrantedUnlessOwnBusy]_vars

\* The handlers of two different sessions are running at the same time.
C16_Witness ==
  \E i, j \in Calls :
    inst[i] # inst[j] /\ pc[i] = "HandlerRunning" /\ pc[j] = "HandlerRunning"

(***************************************************************************)
(* C17: closing a session does not cancel its invocations.  The close      *)
(* callback removes the registry entry and leaves every invocation, the    *)
(* guard and the context as they were; when every started step eventually *)
(* returns or fails, an invocation that is queued or in the pipeline when  *)
(* its session has closed still reaches Done or Failed having got the      *)
(* guard once and released it once.                                        *)
(***************************************************************************)
SessionClosed(i) == \E t \in Transports : serverOf[t] = inst[i] /\ closed[t]

CloseKeepsCalls ==
  \A t \in Transports :
    (closed'[t] /\ ~closed[t])
      => /\ UNCHANGED <<serverVars, callVars>>
         /\ DOMAIN sessions' = DOMAIN sessions \ {sessionId[t]}

C17_CloseDoesNotCancel ==
  /\ [][CloseKeepsCalls]_vars
  /\ \A i \in 1 .. MaxCalls :
       (SessionClosed(i) /\ pc[i] \in Holding \cup {"Queued"})
         ~> (pc[i] \in Terminal /\ acquires[i] = 1 /\ releases[i] = 1)

\* After the session closed, one of its invocations is running its handler
\* and another one is still queued.
C17_Witness ==
  \E i, j \in Calls :
    /\ SessionClosed(i) /\ pc[i] = "HandlerRunning"
    /\ inst[j] = inst[i] /\ pc[j] = "Queued"

(***************************************************************************)
(* C18: an invocation moves through Queued, Guarded, ContextResolving      *)
(* (which here has the steps browser resolution, context construction and  *)
(* pre-check), HandlerRunning, ResponseBuilding and then Done or Failed,   *)
(* never backwards and never skipping a stage other than Queued when the   *)
(* guard is free.  The handler is called only after context resolution and *)
(* the pre-check succeeded in the same call, finalization only after the   *)
(* handler returned, and the invocation gets its one outcome (content      *)
(* result, isError result or fault) exactly when it ends, never while the  *)
(* handler runs.                                                           *)
(***************************************************************************)
Stage(p) ==
  CASE p = "Idle" -> 0
    [] p = "Queued" -> 1
    [] p = "Guarded" -> 2
    [] p \in {"ContextResolving", "ContextBuilding", "PreCheck"} -> 3
    [] p = "HandlerRunning" -> 4
    [] p = "ResponseBuilding" -> 5
    [] p \in {"Done", "Failed"} -> 6

StageOrder ==
  \A i \in Calls :
    /\ pc'[i] # pc[i] =>
         \/ pc[i] = "Idle" /\ pc'[i] \in {"Queued", "Guarded"}
         \/ pc[i] = "Queued" /\ pc'[i] = "Guarded"
         \/ pc[i] = "Guarded" /\ pc'[i] = "ContextResolving"
         \/ pc[i] = "ContextResolving" /\ pc'[i] \in {"ContextBuilding", "PreCheck"}
         \/ pc[i] = "ContextBuilding" /\ pc'[i] = "PreCheck"
         \/ pc[i] = "PreCheck" /\ pc'[i] = "HandlerRunning"
         \/ pc[i] = "HandlerRunning" /\ pc'[i] = "ResponseBuilding"
         \/ pc[i] = "ResponseBuilding" /\ pc'[i] = "Done"
         \/ Stage(pc[i]) \in 3 .. 5 /\ pc'[i] = "Failed"
    /\ outcome[i] # NoOutcome => outcome'[i] = outcome[i]
    /\ ran[i] \subseteq ran'[i]

StageFacts ==
  \A i \in Calls :
    /\ "handler" \in ran[i] <=>
         (Stage(pc[i]) \in {4, 5} \/ pc[i] = "Done"
            \/ (pc[i] = "Failed" /\ failedAt[i] \in {"HandlerRunning", "ResponseBuilding"}))
    /\ "handle" \in ran[i] <=>
         (Stage(pc[i]) = 5 \/ pc[i] = "Done"
            \/ (pc[i] = "Failed" /\ failedAt[i] = "ResponseBuilding"))
    /\ pc[i] \in {"PreCheck", "HandlerRunning", "ResponseBuilding"} =>
         /\ browser[i] # 0
         /\ ctxOf[i] # NoContext
         /\ failedAt[i] = ""
    /\ outcome[i] # NoOutcome <=> pc[i] \in Terminal
    /\ pc[i] = "Done" =>
         /\ outcome[i].kind = "result"
         /\ outcome[i].error = NoError
         /\ outcome[i].isError <=> failedAt[i] = "ResponseBuilding"
         /\ ~outcome[i].isError => outcome[i].content = HandledContent
    /\ pc[i] = "Failed" =>
         /\ outcome[i].kind = "fault"
         /\ outcome[i].content = << >>
         /\ ~outcome[i].isError
         /\ failedAt[i] # ""

C18_PipelineOrder == []StageFacts /\ [][StageOrder]_vars

\* The three outcomes in one run: a content result, an isError result and
\* a fault raised by the pre-check.
C18_Witness ==
  \E i, j, k \in Calls :
    /\ pc[i] = "Done" /\ ~outcome[i].isError
    /\ pc[j] = "Done" /\ outcome[j].isError
    /\ pc[k] = "Failed" /\ failedAt[k] = "PreCheck"

(***************************************************************************)
(* C19: a server instance has one context cell.  After a successful        *)
(* getContext the memoized context is the one for the browser handle just  *)
(* resolved: the memoized object itself when its handle is that handle, a  *)
(* new object built in this call otherwise.  From the pre-check to the end *)
(* of finalization an invocation works with the memoized context of its    *)
(* instance, and the handle of that context is the handle the invocation   *)
(* resolved.                                                               *)
(***************************************************************************)
UsingContext == {"PreCheck", "HandlerRunning", "ResponseBuilding"}

OwnContext ==
  /\ \A i \in Calls :
       pc[i] \in UsingContext =>
         /\ ctxOf[i] # NoContext
         /\ ctxOf[i] = Memo(inst[i])
         /\ ctxOf[i].browser = browser[i]
  /\ \A i, j \in Calls :
       (inst[i] = inst[j] /\ ctxOf[i] # NoContext /\ ctxOf[j] # NoContext)
         => ctxOf[i] = ctxOf[j]

Resolved ==
  \A i \in Calls :
    (pc[i] \in {"ContextResolving", "ContextBuilding"} /\ pc'[i] = "PreCheck") =>
      /\ context'[ContextCell(inst[i])].browser = browser'[i]
      /\ IF Memo(inst[i]).browser = browser'[i]
         THEN context' = context
         ELSE context'[ContextCell(inst[i])] = McpContextFrom(i, browser'[i])
      /\ \A s \in Servers \ {ContextCell(inst[i])} : context'[s] = context[s]

C19_OneContext == []OwnContext /\ [][Resolved]_vars

\* A handler runs with a context built in its own call although an earlier
\* invocation of the instance had run with a memoized one: the handle
\* changed and the context was replaced.
C19_Witness ==
  \E i, j \in Calls :
    /\ i # j
    /\ pc[i] = "HandlerRunning" /\ ctxOf[i].id = i
    /\ pc[j] \in Terminal /\ "handler" \in ran[j]

(***************************************************************************)
(* C20: the registry is well-formed in every reachable state.  The entry   *)
(* under id k holds the adapter whose sessionId is k and the server        *)
(* instance createNewSession connected to that adapter; no adapter and no  *)
(* server instance is held under two ids; an entry, once inserted, is      *)
(* never replaced by another one: it stays as it is until it is deleted.   *)
(***************************************************************************)
WellFormed ==
  /\ \A k \in DOMAIN sessions :
       /\ sessions[k].transport \in Constructed
       /\ sessionId[sessions[k].transport] = k
       /\ sessions[k].server = serverOf[sessions[k].transport]
  /\ \A k, l \in DOMAIN sessions :
       k # l => /\ sessions[k].transport # sessions[l].transport
                /\ sessions[k].server # sessions[l].server

InsertKeeps ==
  \A k \in DOMAIN sessions :
    k \in DOMAIN sessions' => sessions'[k] = sessions[k]

C20_RegistryWellFormed == []WellFormed /\ [][InsertKeeps]_vars

\* Two sessions are registered at once, each under its own id.
C20_Witness ==
  \E k, l \in DOMAIN sessions :
    k # l /\ tstate[sessions[k].transport] = "ready" /\ tstate[sessions[l].transport] = "ready"

====
